---- MODULE Spec2Model ----
(***************************************************************************)
(* Model of molecular_analyzer.py: the MolecularComplexAnalyzer class.     *)
(*                                                                         *)
(* Three specifications share the variables below:                         *)
(*   Spec        one call of analyze_complex on a freshly constructed      *)
(*               analyzer, one action per numbered step of the method;     *)
(*   SpecParse   one call of parse_gjf_file on a file drawn from Files;    *)
(*   SpecCreate  one call of create_complex on two structures drawn from   *)
(*               Structs and a separation distance drawn from Distances.   *)
(*                                                                         *)
(* Coordinates are exact rationals <<n, d>> (d > 0, reduced), so the       *)
(* geometry is that of real arithmetic; floating-point rounding is not     *)
(* modelled.  ase.Atoms objects live in `heap`, and the program's          *)
(* variables hold references (indices) into it, so aliasing is visible.    *)
(***************************************************************************)
EXTENDS Integers, Sequences, FiniteSets, TLC

VARIABLES
  pc,                   \* position in the method under execution
  fairchem_calc,        \* self.fairchem_calc: "None" or "OCPCalculator"
  gemnet_model,         \* self.gemnet_model: "None" or "GemNetT"
  setup_result,         \* which step of setup_models raised, or "ok"
  heap,                 \* sequence of ase.Atoms objects; a reference is an index
  lines,                \* the lines of the file being parsed (SpecParse)
  lib_read,             \* the outcome of ase.io.read on that file (SpecParse)
  parsed,               \* outcome of the last parse_gjf_file call
  absorbent, analyte,   \* locals of analyze_complex / arguments of create_complex
  opt_absorbent, opt_analyte,
  initial_complex, final_complex,
  separation_distance,  \* argument of create_complex
  properties,           \* the dict returned by calculate_properties, in insertion order
  prop_fail,            \* the step of calculate_properties that raised, or "none"
  calls,                \* the calls made by analyze_complex so far, in order
  outputs               \* the output files written so far, in order

vars == <<pc, fairchem_calc, gemnet_model, setup_result, heap, lines, lib_read,
          parsed, absorbent, analyte, opt_absorbent, opt_analyte,
          initial_complex, final_complex, separation_distance, properties,
          prop_fail, calls, outputs>>

\* Bounds of the model.
MaxLines == 4          \* lines per file in SpecParse
MaxPipeLines == 1      \* lines per input file in Spec
MaxAtoms == 2          \* atoms per structure in SpecCreate

---------------------------------------------------------------------------
\* Exact rational arithmetic (numpy float arithmetic without rounding).

Abs(n) == IF n < 0 THEN -n ELSE n

RECURSIVE GCD(_, _)
GCD(a, b) == IF b = 0 THEN a ELSE GCD(b, a % b)

Rat(n, d) ==
  LET g == GCD(Abs(n), Abs(d))
      s == IF d < 0 THEN -1 ELSE 1
  IN  <<(s * n) \div g, (s * d) \div g>>

RInt(n) == <<n, 1>>
RAdd(a, b) == Rat(a[1] * b[2] + b[1] * a[2], a[2] * b[2])
RSub(a, b) == Rat(a[1] * b[2] - b[1] * a[2], a[2] * b[2])
RScale(k, a) == Rat(k * a[1], a[2])
RDivInt(a, k) == Rat(a[1], a[2] * k)

VAdd(u, v) == <<RAdd(u[1], v[1]), RAdd(u[2], v[2]), RAdd(u[3], v[3])>>
VSub(u, v) == <<RSub(u[1], v[1]), RSub(u[2], v[2]), RSub(u[3], v[3])>>
VScale(k, u) == <<RScale(k, u[1]), RScale(k, u[2]), RScale(k, u[3])>>
VDivInt(u, k) == <<RDivInt(u[1], k), RDivInt(u[2], k), RDivInt(u[3], k)>>
VInt(x, y, z) == <<RInt(x), RInt(y), RInt(z)>>
VZero == VInt(0, 0, 0)

---------------------------------------------------------------------------
\* ase.Atoms: chemical symbols, one position per symbol, an attached calculator.

Elements == {"C", "H", "O"}

\* ase.data.atomic_masses, rounded to integers.
Mass(sym) == CASE sym = "H" -> 1 [] sym = "C" -> 12 [] sym = "O" -> 16

\* Atoms(symbols=..., positions=...): the constructor looks every symbol up in
\* the table of elements (KeyError) and then requires one position per symbol
\* (ValueError).
Atoms(symbols, positions) ==
  IF \E i \in 1..Len(symbols) : symbols[i] \notin Elements
  THEN [ok |-> FALSE, error |-> "KeyError", atoms |-> <<>>]
  ELSE IF Len(symbols) # Len(positions)
  THEN [ok |-> FALSE, error |-> "ValueError: wrong length", atoms |-> <<>>]
  ELSE [ok |-> TRUE, error |-> "",
        atoms |-> <<[symbols |-> symbols, positions |-> positions, calc |-> "None"]>>]

\* atoms.copy(): a new object with the same arrays and no calculator.
copy(a) == [symbols |-> a.symbols, positions |-> a.positions, calc |-> "None"]

\* atoms.translate(displacement)
translate(a, displacement) ==
  [a EXCEPT !.positions = [i \in 1..Len(a.positions) |-> VAdd(a.positions[i], displacement)]]

RECURSIVE WeightedSum(_, _)
WeightedSum(a, n) ==
  IF n = 0 THEN VZero
  ELSE VAdd(WeightedSum(a, n - 1), VScale(Mass(a.symbols[n]), a.positions[n]))

RECURSIVE TotalMass(_, _)
TotalMass(a, n) == IF n = 0 THEN 0 ELSE TotalMass(a, n - 1) + Mass(a.symbols[n])

\* atoms.get_center_of_mass()
get_center_of_mass(a) ==
  VDivInt(WeightedSum(a, Len(a.symbols)), TotalMass(a, Len(a.symbols)))

---------------------------------------------------------------------------
\* Lines of a .gjf file.  A line is the sequence of its whitespace-separated
\* tokens (line.strip().split()); a token carries what the parser asks of it:
\* its leading character if '#' or '%', whether it holds a digit or a letter,
\* and whether float() accepts it and with which value.

Word(txt, lead, digit) ==
  [txt |-> txt, lead |-> lead, digit |-> digit, alpha |-> TRUE,
   isnum |-> FALSE, val |-> RInt(0)]
Num(n) ==
  [txt |-> ToString(n), lead |-> "", digit |-> TRUE, alpha |-> FALSE,
   isnum |-> TRUE, val |-> RInt(n)]

CoordLine(sym, x, y, z) == <<Word(sym, "", FALSE), Num(x), Num(y), Num(z)>>

BlankLine == <<>>
LinkLine == <<Word("%mem=2GB", "%", TRUE)>>
RouteLine == <<Word("#", "#", FALSE), Word("B3LYP/6-31G(d)", "", TRUE), Word("opt", "", FALSE)>>
TitleLine == <<Word("Water", "", FALSE), Word("analyte", "", FALSE)>>
NumberedTitleLine ==
  <<Word("Run", "", FALSE), Word("C6H6", "", TRUE), Word("on", "", FALSE), Word("site", "", FALSE)>>
ChargeLine == <<Num(0), Num(1)>>
BadCoordLine == <<Word("H", "", FALSE), Num(1), Word("abc", "", FALSE), Num(0)>>
ConnectivityLine == <<Num(1), Num(2), Num(1), Num(3)>>

CoordLines == {CoordLine("C", 0, 0, 0), CoordLine("H", 1, 0, 0), CoordLine("O", 0, 0, 2)}

LineSet == {BlankLine, LinkLine, RouteLine, TitleLine, NumberedTitleLine, ChargeLine,
            BadCoordLine, ConnectivityLine} \cup CoordLines

SeqsUpTo(S, n) == UNION {[1..k -> S] : k \in 0..n}

Files == SeqsUpTo(LineSet, MaxLines)
PipeFiles == SeqsUpTo(CoordLines \cup {BadCoordLine}, MaxPipeLines)

\* line.startswith(c), on the stripped line
startswith(line, c) == Len(line) > 0 /\ line[1].lead = c
\* any(char.isdigit() for char in line), any(char.isalpha() for char in line)
any_isdigit(line) == \E i \in 1..Len(line) : line[i].digit
any_isalpha(line) == \E i \in 1..Len(line) : line[i].alpha

\* try: symbols.append(parts[0]); positions.append([float(parts[1]), ...])
\* except (ValueError, IndexError): continue
\* The symbol is appended before the three conversions are attempted.
append_atom(st, parts) ==
  LET s1 == [st EXCEPT !.symbols = Append(@, parts[1].txt)]
  IN  IF parts[2].isnum /\ parts[3].isnum /\ parts[4].isnum
      THEN [s1 EXCEPT !.positions = Append(@, <<parts[2].val, parts[3].val, parts[4].val>>)]
      ELSE s1

\* The body of the loop `for line in lines` of _manual_gjf_parse.
parse_line(st, line) ==
  IF Len(line) = 0 \/ startswith(line, "#") \/ startswith(line, "%")
  THEN st
  ELSE IF st.coord_section
  THEN IF Len(line) >= 4 THEN append_atom(st, line) ELSE st
  ELSE IF any_isdigit(line) /\ any_isalpha(line)
  THEN LET s1 == [st EXCEPT !.coord_section = TRUE]
       IN  IF Len(line) >= 4 THEN append_atom(s1, line) ELSE s1
  ELSE st

RECURSIVE parse_lines(_, _)
parse_lines(file, n) ==
  IF n = 0 THEN [coord_section |-> FALSE, symbols |-> <<>>, positions |-> <<>>]
  ELSE parse_line(parse_lines(file, n - 1), file[n])

\* _manual_gjf_parse: the collected lists, whether the structure was built
\* (`if symbols and positions`), and the structure or the error raised.
manual_gjf_parse(file) ==
  LET st == parse_lines(file, Len(file))
      built == st.symbols # <<>> /\ st.positions # <<>>
      made == Atoms(st.symbols, st.positions)
  IN  [path |-> "manual", symbols |-> st.symbols, positions |-> st.positions,
       built |-> built,
       ok |-> built /\ made.ok,
       error |-> IF ~built THEN "ValueError: Could not parse coordinates from .gjf file"
                 ELSE made.error,
       atoms |-> IF built THEN made.atoms ELSE <<>>]

\* What ase.io.read(filepath, format='gaussian-in') may do: raise, or return a
\* structure.
Water == [symbols |-> <<"O", "H">>, positions |-> <<VInt(0, 0, 0), VInt(0, 1, -1)>>, calc |-> "None"]
LibReads == {[ok |-> FALSE, atoms |-> <<>>], [ok |-> TRUE, atoms |-> <<Water>>]}

\* parse_gjf_file
parse_gjf_file(file, lib) ==
  IF lib.ok
  THEN [path |-> "library", symbols |-> <<>>, positions |-> <<>>, built |-> FALSE,
        ok |-> TRUE, error |-> "", atoms |-> lib.atoms]
  ELSE manual_gjf_parse(file)

NotParsed ==
  [path |-> "none", symbols |-> <<>>, positions |-> <<>>, built |-> FALSE,
   ok |-> FALSE, error |-> "", atoms |-> <<>>]

---------------------------------------------------------------------------
\* setup_models, called by __init__.  `outcome` names the constructor call
\* that raises, if any.

SetupOutcomes == {"ok", "fairchem_failed", "gemnet_failed"}

\* The state of the two attributes when the try block is left.
setup_try(outcome) ==
  [fairchem_calc |-> IF outcome = "fairchem_failed" THEN "unset" ELSE "OCPCalculator",
   gemnet_model |-> IF outcome = "ok" THEN "GemNetT" ELSE "unset",
   raised |-> outcome # "ok"]

\* Variant: the handler resets only the model that was being created.
setup_except_partial(t) == [t EXCEPT !.gemnet_model = "None"]

\* except Exception: self.fairchem_calc = None; self.gemnet_model = None
setup_except(t) == [t EXCEPT !.fairchem_calc = "None", !.gemnet_model = "None"]

setup_models(outcome) ==
  LET t == setup_try(outcome) IN IF t.raised THEN setup_except(t) ELSE t

---------------------------------------------------------------------------
\* optimize_structure.  `opt` is what the external optimizer does: it raises,
\* or it completes having moved the atoms of the copy.

Moves == {VZero, VInt(0, 0, 1)}
OptOutcomes == {[ok |-> FALSE, move |-> VZero]} \cup {[ok |-> TRUE, move |-> m] : m \in Moves}

\* optimizer.run on atoms_copy: the last atom is displaced by `move`.
relax(a, move) ==
  [a EXCEPT !.positions[Len(a.positions)] = VAdd(@, move)]

\* atoms_copy = atoms.copy(); atoms_copy.set_calculator(self.fairchem_calc);
\* optimizer.run(...)
optimized_copy(a, calc, move) == relax([copy(a) EXCEPT !.calc = calc], move)

\* Variant: the success path returns `atoms` instead of `atoms_copy`.
optimize_structure_returns_input(h, atoms, calc, opt) ==
  IF calc = "None"
  THEN [heap |-> h, ret |-> atoms, outcome |-> "unavailable"]
  ELSE IF ~opt.ok
  THEN [heap |-> h, ret |-> atoms, outcome |-> "failed"]
  ELSE [heap |-> Append(h, optimized_copy(h[atoms], calc, opt.move)),
        ret |-> atoms, outcome |-> "ok"]

\* Variant: `atoms_copy = atoms`, the optimizer runs on the input itself.
optimize_structure_in_place(h, atoms, calc, opt) ==
  IF calc = "None"
  THEN [heap |-> h, ret |-> atoms, outcome |-> "unavailable"]
  ELSE IF ~opt.ok
  THEN [heap |-> h, ret |-> atoms, outcome |-> "failed"]
  ELSE [heap |-> [h EXCEPT ![atoms] = relax([@ EXCEPT !.calc = calc], opt.move)],
        ret |-> atoms, outcome |-> "ok"]

optimize_structure(h, atoms, calc, opt) ==
  IF calc = "None"
  THEN [heap |-> h, ret |-> atoms, outcome |-> "unavailable"]
  ELSE IF ~opt.ok
  THEN [heap |-> h, ret |-> atoms, outcome |-> "failed"]
  ELSE [heap |-> Append(h, optimized_copy(h[atoms], calc, opt.move)),
        ret |-> Len(h) + 1, outcome |-> "ok"]

\* optimize_complex
optimize_complex(h, complex_atoms, calc, opt) == optimize_structure(h, complex_atoms, calc, opt)

---------------------------------------------------------------------------
\* create_complex

DefaultSeparation == 3

\* Variant: the two centres of mass exchanged.
displacement_swapped(abs_com, ana_com, d) == VSub(VAdd(VInt(0, 0, d), ana_com), abs_com)

\* displacement = np.array([0, 0, separation_distance]) + abs_com - ana_com
displacement(abs_com, ana_com, d) == VSub(VAdd(VInt(0, 0, d), abs_com), ana_com)

\* absorbent + analyte_copy: a new object, the atoms of the left operand
\* followed by those of the right one.
atoms_add(a, b) ==
  [symbols |-> a.symbols \o b.symbols, positions |-> a.positions \o b.positions,
   calc |-> "None"]

\* Variant: analyte.translate(displacement) without analyte.copy().
create_complex_in_place(h, abs, ana, d) ==
  LET abs_com == get_center_of_mass(h[abs])
      ana_com == get_center_of_mass(h[ana])
      moved == translate(h[ana], displacement(abs_com, ana_com, d))
  IN  [heap |-> Append([h EXCEPT ![ana] = moved], atoms_add(h[abs], moved)),
       ret |-> Len(h) + 1]

create_complex(h, abs, ana, d) ==
  LET abs_com == get_center_of_mass(h[abs])
      ana_com == get_center_of_mass(h[ana])
      analyte_copy == translate(copy(h[ana]), displacement(abs_com, ana_com, d))
  IN  [heap |-> Append(h, atoms_add(h[abs], analyte_copy)), ret |-> Len(h) + 1]

---------------------------------------------------------------------------
\* calculate_properties and the estimates it calls.

RECURSIVE insert_sorted(_, _)
insert_sorted(x, sq) ==
  IF sq = <<>> THEN <<x>>
  ELSE IF x <= Head(sq) THEN <<x>> \o sq
  ELSE <<Head(sq)>> \o insert_sorted(x, Tail(sq))

RECURSIVE sorted(_)
sorted(sq) == IF sq = <<>> THEN <<>> ELSE insert_sorted(Head(sq), sorted(Tail(sq)))

\* 'X' in symbols
contains(symbols, x) == \E i \in 1..Len(symbols) : symbols[i] = x

\* Variant: `return frequencies` without sorted().
estimate_ir_frequencies_unsorted(a) ==
  LET symbols == a.symbols
      f1 == IF contains(symbols, "O") /\ contains(symbols, "H") THEN <<3200, 3400>> ELSE <<>>
      f2 == IF contains(symbols, "C") /\ contains(symbols, "O") THEN f1 \o <<1700>> ELSE f1
      f3 == IF contains(symbols, "C") /\ contains(symbols, "H") THEN f2 \o <<2900, 3000>> ELSE f2
  IN  f3

\* _estimate_ir_frequencies
estimate_ir_frequencies(a) ==
  LET symbols == a.symbols
      f1 == IF contains(symbols, "O") /\ contains(symbols, "H") THEN <<3200, 3400>> ELSE <<>>
      f2 == IF contains(symbols, "C") /\ contains(symbols, "O") THEN f1 \o <<1700>> ELSE f1
      f3 == IF contains(symbols, "C") /\ contains(symbols, "H") THEN f2 \o <<2900, 3000>> ELSE f2
  IN  sorted(f3)

\* _identify_binding_sites: the (0-based) indices of the heteroatoms.
RECURSIVE identify_binding_sites(_, _)
identify_binding_sites(a, n) ==
  IF n = 0 THEN <<>>
  ELSE identify_binding_sites(a, n - 1) \o
       (IF a.symbols[n] \in {"O", "N", "S"}
        THEN <<[atom_index |-> n - 1, element |-> a.symbols[n], position |-> a.positions[n]]>>
        ELSE <<>>)

\* Variant: the energy block without its `if self.fairchem_calc` guard.
prop_steps_unguarded(calc) ==
  <<"total_atoms", "molecular_volume", "center_of_mass",
    "set_calculator", "total_energy", "forces_rms",
    "homo_lumo_gap", "dipole_moment", "polarizability", "binding_energy",
    "binding_sites", "ir_frequencies", "uv_vis_absorption">>

\* The statements of the try block, in order; each may raise.
prop_steps(calc) ==
  <<"total_atoms", "molecular_volume", "center_of_mass">>
  \o (IF calc # "None" THEN <<"set_calculator", "total_energy", "forces_rms">> ELSE <<>>)
  \o <<"homo_lumo_gap", "dipole_moment", "polarizability", "binding_energy",
       "binding_sites", "ir_frequencies", "uv_vis_absorption">>

\* The value a statement stores.  The random and floating-point estimates are
\* opaque.
prop_value(step, a) ==
  CASE step = "total_atoms" -> <<Len(a.symbols)>>
    [] step = "center_of_mass" -> get_center_of_mass(a)
    [] step = "binding_sites" -> identify_binding_sites(a, Len(a.symbols))
    [] step = "ir_frequencies" -> estimate_ir_frequencies(a)
    [] OTHER -> <<"float">>

\* Runs the statements from the n-th on; stops at the one named `fail`, where
\* the except clause stores 'error'.
RECURSIVE run_props(_, _, _, _, _)
run_props(steps, n, a, calc, fail) ==
  IF n > Len(steps) THEN [atoms |-> a, properties |-> <<>>]
  ELSE IF steps[n] = fail
  THEN [atoms |-> a, properties |-> <<[key |-> "error", value |-> <<"str(e)">>]>>]
  ELSE IF steps[n] = "set_calculator"
  THEN run_props(steps, n + 1, [a EXCEPT !.calc = calc], calc, fail)
  ELSE LET rest == run_props(steps, n + 1, a, calc, fail)
       IN  [atoms |-> rest.atoms,
            properties |-> <<[key |-> steps[n], value |-> prop_value(steps[n], a)]>>
                           \o rest.properties]

calculate_properties(h, complex_atoms, calc, fail) ==
  LET r == run_props(prop_steps(calc), 1, h[complex_atoms], calc, fail)
  IN  [heap |-> [h EXCEPT ![complex_atoms] = r.atoms], properties |-> r.properties]

keys(props) == {props[i].key : i \in 1..Len(props)}
get(props, k) == props[CHOOSE i \in 1..Len(props) : props[i].key = k].value

---------------------------------------------------------------------------
\* save_gjf_file: the lines written, as the parser will see them.

Million == 1000000

\* The first k decimals of r/d (0 <= r < d) as an integer, and the remainder.
RECURSIVE decimals(_, _, _)
decimals(r, d, k) ==
  IF k = 0 THEN <<0, r>>
  ELSE LET p == decimals(r, d, k - 1)
       IN  <<p[1] * 10 + (p[2] * 10) \div d, (p[2] * 10) % d>>

\* f"{x:12.6f}": x rounded to six decimals.
format_6f(x) ==
  LET p == decimals(x[1] % x[2], x[2], 6)
      frac == p[1] + (IF 2 * p[2] >= x[2] THEN 1 ELSE 0)
  IN  Rat((x[1] \div x[2]) * Million + frac, Million)

float_token(x) ==
  [txt |-> "float", lead |-> "", digit |-> TRUE, alpha |-> FALSE,
   isnum |-> TRUE, val |-> format_6f(x)]

\* `title` is the tokens of the title string, `route` those of
\* f"{method}/{basis}".
save_gjf_file(a, title, route) ==
  <<<<Word("%nprocshared=4", "%", TRUE)>>,
    <<Word("%mem=2GB", "%", TRUE)>>,
    <<Word("#", "#", FALSE)>> \o route \o <<Word("opt", "", FALSE), Word("freq", "", FALSE)>>,
    <<>>,
    title,
    <<>>,
    <<Num(0), Num(1)>>>>
  \o [i \in 1..Len(a.symbols) |->
        <<Word(a.symbols[i], "", FALSE), float_token(a.positions[i][1]),
          float_token(a.positions[i][2]), float_token(a.positions[i][3])>>]
  \o << <<>> >>

ComplexTitle ==
  <<Word("Optimized", "", FALSE), Word("Absorbent-Analyte", "", FALSE), Word("Complex", "", FALSE)>>

\* method="B3LYP", basis="6-31G(d)"
DefaultRoute == <<Word("B3LYP/6-31G(d)", "", TRUE)>>
\* title="Optimized Complex"
DefaultTitle == <<Word("Optimized", "", FALSE), Word("Complex", "", FALSE)>>

---------------------------------------------------------------------------
\* SpecParse: one call of parse_gjf_file.

InitParse ==
  /\ pc = "parse_call"
  /\ lines \in Files
  /\ lib_read \in LibReads
  /\ parsed = NotParsed
  /\ heap = <<>>
  /\ fairchem_calc = "None" /\ gemnet_model = "None" /\ setup_result = "ok"
  /\ absorbent = 0 /\ analyte = 0 /\ opt_absorbent = 0 /\ opt_analyte = 0
  /\ initial_complex = 0 /\ final_complex = 0
  /\ separation_distance = 0
  /\ properties = <<>> /\ prop_fail = "none"
  /\ calls = <<>> /\ outputs = <<>>

ParseCall ==
  /\ pc = "parse_call"
  /\ parsed' = parse_gjf_file(lines, lib_read)
  /\ heap' = heap \o parsed'.atoms
  /\ pc' = IF parsed'.ok THEN "parse_returned" ELSE "parse_raised"
  /\ UNCHANGED <<fairchem_calc, gemnet_model, setup_result, lines, lib_read,
                 absorbent, analyte, opt_absorbent, opt_analyte, initial_complex,
                 final_complex, separation_distance, properties, prop_fail,
                 calls, outputs>>

NextParse == ParseCall

SpecParse == InitParse /\ [][NextParse]_vars

---------------------------------------------------------------------------
\* SpecGjf: one call of parse_gjf_file on a file laid out as a Gaussian input:
\* directive lines, a title, the charge/multiplicity line, the coordinate
\* lines, trailing lines.

MaxCoords == 2         \* coordinate lines per file
MaxTrailing == 2       \* lines after the coordinate section

ShortNumberedTitleLine == <<Word("Run", "", FALSE), Num(2)>>
ShortConnectivityLine == <<Num(1), Num(2), Num(1)>>

GjfHeaders == {<<RouteLine, BlankLine>>, <<LinkLine, RouteLine, BlankLine>>,
               <<LinkLine, LinkLine, RouteLine, BlankLine>>}
GjfTitles == {TitleLine, NumberedTitleLine, ShortNumberedTitleLine}
GjfCoords == SeqsUpTo(CoordLines, MaxCoords) \ {<<>>}
GjfTrailers == SeqsUpTo({BlankLine, ConnectivityLine, ShortConnectivityLine}, MaxTrailing)

GjfFiles ==
  {h \o <<t, BlankLine, ChargeLine>> \o c \o tr :
     h \in GjfHeaders, t \in GjfTitles, c \in GjfCoords, tr \in GjfTrailers}

InitGjf ==
  /\ pc = "parse_call"
  /\ lines \in GjfFiles
  /\ lib_read \in LibReads
  /\ parsed = NotParsed
  /\ heap = <<>>
  /\ fairchem_calc = "None" /\ gemnet_model = "None" /\ setup_result = "ok"
  /\ absorbent = 0 /\ analyte = 0 /\ opt_absorbent = 0 /\ opt_analyte = 0
  /\ initial_complex = 0 /\ final_complex = 0
  /\ separation_distance = 0
  /\ properties = <<>> /\ prop_fail = "none"
  /\ calls = <<>> /\ outputs = <<>>

SpecGjf == InitGjf /\ [][NextParse]_vars

---------------------------------------------------------------------------
\* SpecCreate: one call of create_complex.

AtomChoices ==
  {[symbol |-> "C", position |-> VInt(0, 0, 0)], [symbol |-> "C", position |-> VInt(1, 2, 0)],
   [symbol |-> "H", position |-> VInt(1, 0, 0)], [symbol |-> "H", position |-> VInt(0, -1, 3)],
   [symbol |-> "O", position |-> VInt(0, 0, 2)], [symbol |-> "O", position |-> VInt(-2, 1, 1)]}

structure(sq) ==
  [symbols |-> [i \in 1..Len(sq) |-> sq[i].symbol],
   positions |-> [i \in 1..Len(sq) |-> sq[i].position], calc |-> "None"]

Structs == {structure(sq) : sq \in SeqsUpTo(AtomChoices, MaxAtoms) \ {<<>>}}

Distances == {DefaultSeparation, 0, 1, -2}

InitCreate ==
  /\ pc = "create_call"
  /\ \E a \in Structs, b \in Structs : heap = <<a, b>>
  /\ absorbent = 1 /\ analyte = 2
  /\ separation_distance \in Distances
  /\ lines = <<>> /\ lib_read = [ok |-> FALSE, atoms |-> <<>>] /\ parsed = NotParsed
  /\ fairchem_calc = "None" /\ gemnet_model = "None" /\ setup_result = "ok"
  /\ opt_absorbent = 0 /\ opt_analyte = 0
  /\ initial_complex = 0 /\ final_complex = 0
  /\ properties = <<>> /\ prop_fail = "none"
  /\ calls = <<>> /\ outputs = <<>>

CreateCall ==
  /\ pc = "create_call"
  /\ LET r == create_complex(heap, absorbent, analyte, separation_distance)
     IN  heap' = r.heap /\ initial_complex' = r.ret
  /\ pc' = "create_returned"
  /\ UNCHANGED <<fairchem_calc, gemnet_model, setup_result, lines, lib_read, parsed,
                 absorbent, analyte, opt_absorbent, opt_analyte, final_complex,
                 separation_distance, properties, prop_fail, calls, outputs>>

NextCreate == CreateCall

SpecCreate == InitCreate /\ [][NextCreate]_vars

---------------------------------------------------------------------------
\* SpecRoundTrip: save_gjf_file on a structure, then _manual_gjf_parse on the
\* file written.

\* Offsets that give the coordinates more than six decimals.
Offsets == {VZero, <<Rat(1, 3), Rat(-2, 7), Rat(5, 8)>>}

Titles == {DefaultTitle, ComplexTitle, ShortNumberedTitleLine, NumberedTitleLine,
           <<Word("run", "", FALSE), Num(1), Num(2), Num(3)>>}
Routes == {DefaultRoute, <<Word("HF/STO-3G", "", TRUE)>>,
           <<Word("PBE0", "", TRUE), Word("D3/def2", "", TRUE), Word("SVP", "", FALSE)>>}

InitRoundTrip ==
  /\ pc = "save_call"
  /\ \E a \in Structs, off \in Offsets : heap = <<translate(a, off)>>
  /\ final_complex = 1
  /\ lines = <<>> /\ lib_read = [ok |-> FALSE, atoms |-> <<>>] /\ parsed = NotParsed
  /\ fairchem_calc = "None" /\ gemnet_model = "None" /\ setup_result = "ok"
  /\ absorbent = 0 /\ analyte = 0 /\ opt_absorbent = 0 /\ opt_analyte = 0
  /\ initial_complex = 0
  /\ separation_distance = 0
  /\ properties = <<>> /\ prop_fail = "none"
  /\ calls = <<>> /\ outputs = <<>>

\* self.save_gjf_file(atoms, filename, title, method, basis)
SaveCall ==
  /\ pc = "save_call"
  /\ \E title \in Titles, route \in Routes :
       lines' = save_gjf_file(heap[final_complex], title, route)
  /\ pc' = "reparse_call"
  /\ UNCHANGED <<fairchem_calc, gemnet_model, setup_result, heap, lib_read, parsed,
                 absorbent, analyte, opt_absorbent, opt_analyte, initial_complex,
                 final_complex, separation_distance, properties, prop_fail, calls,
                 outputs>>

\* self._manual_gjf_parse(filename)
ReparseCall ==
  /\ pc = "reparse_call"
  /\ parsed' = manual_gjf_parse(lines)
  /\ heap' = heap \o parsed'.atoms
  /\ pc' = IF parsed'.ok THEN "reparse_returned" ELSE "reparse_raised"
  /\ UNCHANGED <<fairchem_calc, gemnet_model, setup_result, lines, lib_read,
                 absorbent, analyte, opt_absorbent, opt_analyte, initial_complex,
                 final_complex, separation_distance, properties, prop_fail, calls,
                 outputs>>

NextRoundTrip == SaveCall \/ ReparseCall

SpecRoundTrip == InitRoundTrip /\ [][NextRoundTrip]_vars

---------------------------------------------------------------------------
\* Spec: __init__ followed by one call of analyze_complex.

Call(op, args, ret, outcome) == [op |-> op, args |-> args, ret |-> ret, outcome |-> outcome]

Init ==
  /\ pc = "new"
  /\ fairchem_calc = "unset" /\ gemnet_model = "unset" /\ setup_result = "ok"
  /\ heap = <<>>
  /\ lines = <<>> /\ lib_read = [ok |-> FALSE, atoms |-> <<>>] /\ parsed = NotParsed
  /\ absorbent = 0 /\ analyte = 0 /\ opt_absorbent = 0 /\ opt_analyte = 0
  /\ initial_complex = 0 /\ final_complex = 0
  /\ separation_distance = DefaultSeparation
  /\ properties = <<>> /\ prop_fail = "none"
  /\ calls = <<>> /\ outputs = <<>>

\* __init__: self.setup_models()
Construct ==
  /\ pc = "new"
  /\ \E outcome \in SetupOutcomes :
       LET m == setup_models(outcome)
       IN  /\ fairchem_calc' = m.fairchem_calc
           /\ gemnet_model' = m.gemnet_model
           /\ setup_result' = outcome
  /\ pc' = "parse_absorbent"
  /\ UNCHANGED <<heap, lines, lib_read, parsed, absorbent, analyte, opt_absorbent,
                 opt_analyte, initial_complex, final_complex, separation_distance,
                 properties, prop_fail, calls, outputs>>

\* absorbent = self.parse_gjf_file(absorbent_file)
ParseAbsorbent ==
  /\ pc = "parse_absorbent"
  /\ \E file \in PipeFiles, lib \in LibReads :
       LET r == parse_gjf_file(file, lib)
       IN  /\ parsed' = r
           /\ heap' = heap \o r.atoms
           /\ absorbent' = IF r.ok THEN Len(heap) + 1 ELSE 0
           /\ pc' = IF r.ok THEN "parse_analyte" ELSE "raised"
           /\ calls' = Append(calls, Call("parse_gjf_file", <<>>, absorbent',
                                          IF r.ok THEN r.path ELSE "raised"))
  /\ UNCHANGED <<fairchem_calc, gemnet_model, setup_result, lines, lib_read, analyte,
                 opt_absorbent, opt_analyte, initial_complex, final_complex,
                 separation_distance, properties, prop_fail, outputs>>

\* analyte = self.parse_gjf_file(analyte_file)
ParseAnalyte ==
  /\ pc = "parse_analyte"
  /\ \E file \in PipeFiles, lib \in LibReads :
       LET r == parse_gjf_file(file, lib)
       IN  /\ parsed' = r
           /\ heap' = heap \o r.atoms
           /\ analyte' = IF r.ok THEN Len(heap) + 1 ELSE 0
           /\ pc' = IF r.ok THEN "optimize_absorbent" ELSE "raised"
           /\ calls' = Append(calls, Call("parse_gjf_file", <<>>, analyte',
                                          IF r.ok THEN r.path ELSE "raised"))
  /\ UNCHANGED <<fairchem_calc, gemnet_model, setup_result, lines, lib_read, absorbent,
                 opt_absorbent, opt_analyte, initial_complex, final_complex,
                 separation_distance, properties, prop_fail, outputs>>

\* opt_absorbent = self.optimize_structure(absorbent)
OptimizeAbsorbent ==
  /\ pc = "optimize_absorbent"
  /\ \E opt \in OptOutcomes :
       LET r == optimize_structure(heap, absorbent, fairchem_calc, opt)
       IN  /\ heap' = r.heap
           /\ opt_absorbent' = r.ret
           /\ calls' = Append(calls, Call("optimize_structure", <<absorbent>>, r.ret, r.outcome))
  /\ pc' = "optimize_analyte"
  /\ UNCHANGED <<fairchem_calc, gemnet_model, setup_result, lines, lib_read, parsed,
                 absorbent, analyte, opt_analyte, initial_complex, final_complex,
                 separation_distance, properties, prop_fail, outputs>>

\* opt_analyte = self.optimize_structure(analyte)
OptimizeAnalyte ==
  /\ pc = "optimize_analyte"
  /\ \E opt \in OptOutcomes :
       LET r == optimize_structure(heap, analyte, fairchem_calc, opt)
       IN  /\ heap' = r.heap
           /\ opt_analyte' = r.ret
           /\ calls' = Append(calls, Call("optimize_structure", <<analyte>>, r.ret, r.outcome))
  /\ pc' = "create_complex"
  /\ UNCHANGED <<fairchem_calc, gemnet_model, setup_result, lines, lib_read, parsed,
                 absorbent, analyte, opt_absorbent, initial_complex, final_complex,
                 separation_distance, properties, prop_fail, outputs>>

\* Variant: the parsed structures passed on instead of the optimized ones.
complex_args_unoptimized == <<absorbent, analyte>>

\* The arguments analyze_complex passes to create_complex.
complex_args == <<opt_absorbent, opt_analyte>>

\* initial_complex = self.create_complex(opt_absorbent, opt_analyte)
CreateComplex ==
  /\ pc = "create_complex"
  /\ LET args == complex_args
         r == create_complex(heap, args[1], args[2], separation_distance)
     IN  /\ heap' = r.heap
         /\ initial_complex' = r.ret
         /\ calls' = Append(calls, Call("create_complex", args, r.ret, "ok"))
  /\ pc' = "optimize_complex"
  /\ UNCHANGED <<fairchem_calc, gemnet_model, setup_result, lines, lib_read, parsed,
                 absorbent, analyte, opt_absorbent, opt_analyte, final_complex,
                 separation_distance, properties, prop_fail, outputs>>

\* final_complex = self.optimize_complex(initial_complex)
OptimizeComplex ==
  /\ pc = "optimize_complex"
  /\ \E opt \in OptOutcomes :
       LET r == optimize_complex(heap, initial_complex, fairchem_calc, opt)
       IN  /\ heap' = r.heap
           /\ final_complex' = r.ret
           /\ calls' = Append(calls, Call("optimize_complex", <<initial_complex>>, r.ret, r.outcome))
  /\ pc' = "calculate_properties"
  /\ UNCHANGED <<fairchem_calc, gemnet_model, setup_result, lines, lib_read, parsed,
                 absorbent, analyte, opt_absorbent, opt_analyte, initial_complex,
                 separation_distance, properties, prop_fail, outputs>>

\* The argument analyze_complex passes to calculate_properties.
properties_arg == final_complex

\* properties = self.calculate_properties(final_complex)
CalculateProperties ==
  /\ pc = "calculate_properties"
  /\ \E fail \in {"none"} \cup {prop_steps(fairchem_calc)[i] : i \in 1..Len(prop_steps(fairchem_calc))} :
       LET r == calculate_properties(heap, properties_arg, fairchem_calc, fail)
       IN  /\ heap' = r.heap
           /\ properties' = r.properties
           /\ prop_fail' = fail
  /\ calls' = Append(calls, Call("calculate_properties", <<properties_arg>>, 0, "ok"))
  /\ pc' = "save_gjf"
  /\ UNCHANGED <<fairchem_calc, gemnet_model, setup_result, lines, lib_read, parsed,
                 absorbent, analyte, opt_absorbent, opt_analyte, initial_complex,
                 final_complex, separation_distance, outputs>>

\* self.save_gjf_file(final_complex, output_gjf, title=...)
SaveGjf ==
  /\ pc = "save_gjf"
  /\ outputs' = Append(outputs, [name |-> "_optimized.gjf",
                                 content |-> save_gjf_file(heap[final_complex], ComplexTitle, DefaultRoute)])
  /\ calls' = Append(calls, Call("save_gjf_file", <<final_complex>>, 0, "ok"))
  /\ pc' = "save_properties"
  /\ UNCHANGED <<fairchem_calc, gemnet_model, setup_result, heap, lines, lib_read, parsed,
                 absorbent, analyte, opt_absorbent, opt_analyte, initial_complex,
                 final_complex, separation_distance, properties, prop_fail>>

\* with open(properties_file, 'w') as f: ... for key, value in properties.items()
SaveProperties ==
  /\ pc = "save_properties"
  /\ outputs' = Append(outputs, [name |-> "_properties.txt",
                                 content |-> [i \in 1..Len(properties) |-> properties[i].key]])
  /\ calls' = Append(calls, Call("write_properties", <<>>, 0, "ok"))
  /\ pc' = "done"
  /\ UNCHANGED <<fairchem_calc, gemnet_model, setup_result, heap, lines, lib_read, parsed,
                 absorbent, analyte, opt_absorbent, opt_analyte, initial_complex,
                 final_complex, separation_distance, properties, prop_fail>>

Next ==
  \/ Construct
  \/ ParseAbsorbent
  \/ ParseAnalyte
  \/ OptimizeAbsorbent
  \/ OptimizeAnalyte
  \/ CreateComplex
  \/ OptimizeComplex
  \/ CalculateProperties
  \/ SaveGjf
  \/ SaveProperties

Spec == Init /\ [][Next]_vars

---------------------------------------------------------------------------
\* Properties.

Range(sq) == {sq[i] : i \in 1..Len(sq)}
IsOptimize(c) == c.op \in {"optimize_structure", "optimize_complex"}

StepOrder ==
  <<"parse_gjf_file", "parse_gjf_file", "optimize_structure", "optimize_structure",
    "create_complex", "optimize_complex", "calculate_properties", "save_gjf_file",
    "write_properties">>

\* C1: analyze_complex runs parse, parse, optimize, optimize, combine,
\* optimize-complex, estimate-properties, write-output in this order; each
\* optimize_structure call receives a parsed structure, create_complex receives
\* the two results of optimize_structure, calculate_properties the result of
\* optimize_complex; an output file exists only after the seven earlier calls
\* returned, the .gjf before the properties file; after a parse that raised no
\* further step runs and no file is written.
C1_PipelineOrder ==
  /\ Len(calls) <= Len(StepOrder)
  /\ \A i \in 1..Len(calls) : calls[i].op = StepOrder[i]
  /\ Len(calls) >= 3 => calls[3].args = <<calls[1].ret>>
  /\ Len(calls) >= 4 => calls[4].args = <<calls[2].ret>>
  /\ Len(calls) >= 5 => calls[5].args = <<calls[3].ret, calls[4].ret>>
  /\ Len(calls) >= 6 => calls[6].args = <<calls[5].ret>>
  /\ Len(calls) >= 7 => calls[7].args = <<calls[6].ret>>
  /\ Len(calls) >= 8 => calls[8].args = <<calls[6].ret>>
  /\ Len(outputs) <= 2
  /\ Len(outputs) >= 1 => outputs[1].name = "_optimized.gjf" /\ Len(calls) >= 8
  /\ Len(outputs) >= 2 => outputs[2].name = "_properties.txt" /\ Len(calls) >= 9
  /\ \A i \in 1..Len(calls) :
       calls[i].outcome = "raised" => i <= 2 /\ Len(calls) = i /\ outputs = <<>> /\ pc = "raised"
  /\ pc = "raised" => outputs = <<>> /\ calls[Len(calls)].outcome = "raised"

\* A complete run in which both optimizations produced new structures.
C1_Witness ==
  /\ pc = "done" /\ Len(outputs) = 2
  /\ calls[3].outcome = "ok" /\ calls[4].outcome = "ok"

\* C2: where _manual_gjf_parse builds the structure, the collected symbols
\* and the collected positions have the same length; the complex returned by
\* create_complex has one position per symbol.
C2_EqualLength ==
  /\ parsed.path = "manual" /\ parsed.built => Len(parsed.symbols) = Len(parsed.positions)
  /\ initial_complex # 0 =>
       Len(heap[initial_complex].symbols) = Len(heap[initial_complex].positions)

\* C3: create_complex(absorbent, analyte, d) returns len(absorbent) +
\* len(analyte) atoms: the absorbent's atoms in order at their positions, then
\* the analyte's atoms in order, each translated by (0,0,d) + com(absorbent) -
\* com(analyte); the analyte's relative positions are preserved and its centre
\* of mass lies d above the absorbent's along z.
C3_ComplexGeometry ==
  [][pc = "create_call" =>
       LET A == heap[absorbent]
           B == heap[analyte]
           X == heap'[initial_complex']
           na == Len(A.symbols)
           nb == Len(B.symbols)
           d == separation_distance
           shift == VSub(VAdd(VInt(0, 0, d), get_center_of_mass(A)), get_center_of_mass(B))
           tail == [symbols |-> SubSeq(X.symbols, na + 1, na + nb),
                    positions |-> SubSeq(X.positions, na + 1, na + nb)]
       IN  /\ Len(X.symbols) = na + nb /\ Len(X.positions) = na + nb
           /\ \A i \in 1..na : X.symbols[i] = A.symbols[i] /\ X.positions[i] = A.positions[i]
           /\ \A j \in 1..nb : /\ X.symbols[na + j] = B.symbols[j]
                               /\ X.positions[na + j] = VAdd(B.positions[j], shift)
           /\ \A j, k \in 1..nb :
                VSub(X.positions[na + j], X.positions[na + k]) = VSub(B.positions[j], B.positions[k])
           /\ get_center_of_mass(tail) = VAdd(get_center_of_mass(A), VInt(0, 0, d))
  ]_vars

\* A call with the default distance on two-atom molecules whose centres of
\* mass differ and are not lattice points.
C3_Witness ==
  /\ pc = "create_returned" /\ separation_distance = DefaultSeparation
  /\ Len(heap[absorbent].symbols) = 2 /\ Len(heap[analyte].symbols) = 2
  /\ get_center_of_mass(heap[absorbent]) # get_center_of_mass(heap[analyte])
  /\ get_center_of_mass(heap[analyte])[3][2] # 1
  /\ Len(heap[initial_complex].symbols) = 4

\* C4: create_complex leaves the absorbent and the analyte as they were:
\* same symbols, same positions.
C4_InputsUnchanged ==
  [][pc = "create_call" =>
       /\ heap'[absorbent] = heap[absorbent]
       /\ heap'[analyte] = heap[analyte]
       /\ absorbent' = absorbent /\ analyte' = analyte
       /\ initial_complex' \notin {absorbent, analyte}
  ]_vars

\* A call that moved the analyte's atoms in the complex by a non-zero
\* displacement.
C4_Witness ==
  /\ pc = "create_returned"
  /\ heap[initial_complex].positions[Len(heap[absorbent].symbols) + 1] # heap[analyte].positions[1]

\* C5 as stated: the structure optimize_structure / optimize_complex returns
\* is always an object distinct from the one passed in.
C5_AlwaysCopy ==
  \A i \in 1..Len(calls) : IsOptimize(calls[i]) => calls[i].ret # calls[i].args[1]

\* C5 amended: the structure returned is a new object, distinct from every
\* structure that existed before, exactly when the optimizer run completed;
\* when the calculator is unavailable or the optimization failed it is the
\* input object itself.
C5_CopyOnlyWhenOptimized ==
  \A i \in 1..Len(calls) :
    IsOptimize(calls[i]) =>
      /\ calls[i].outcome = "ok" <=> calls[i].ret # calls[i].args[1]
      /\ calls[i].outcome = "ok" => \A j \in 1..(i - 1) : calls[j].ret # calls[i].ret
      /\ fairchem_calc = "None" => calls[i].ret = calls[i].args[1]

\* The optimization of the complex failed, the returned structure is the
\* initial complex itself, and attaching the calculator to the returned
\* structure has changed the initial complex.
C5_Witness ==
  /\ pc = "done"
  /\ calls[3].outcome = "ok" /\ calls[6].outcome = "failed"
  /\ final_complex = initial_complex
  /\ heap[initial_complex].calc # "None"

\* C6: optimize_structure never raises; with the calculator unavailable or
\* the optimization failing it returns its input; in every outcome, the
\* successful one included, the input's symbols and positions are unchanged,
\* and the optimized copy has the input's symbols.
C6_OptimizeNeverRaises ==
  [][(pc = "optimize_absorbent" \/ pc = "optimize_analyte" \/ pc = "optimize_complex") =>
       LET c == calls'[Len(calls')]
           arg == c.args[1]
       IN  /\ Len(calls') = Len(calls) + 1 /\ IsOptimize(c)
           /\ pc' # "raised"
           /\ c.outcome \in {"unavailable", "failed", "ok"}
           /\ fairchem_calc = "None" => c.outcome = "unavailable"
           /\ c.outcome \in {"unavailable", "failed"} => c.ret = arg
           /\ heap'[arg].symbols = heap[arg].symbols
           /\ heap'[arg].positions = heap[arg].positions
           /\ c.outcome = "ok" =>
                /\ c.ret # arg
                /\ heap'[c.ret].symbols = heap[arg].symbols
                /\ Len(heap'[c.ret].positions) = Len(heap[arg].positions)
  ]_vars

\* The optimizer completed and moved an atom of the copy.
C6_Witness ==
  /\ Len(calls) = 3 /\ calls[3].outcome = "ok"
  /\ heap[calls[3].ret].positions # heap[calls[3].args[1]].positions

BaseKeys ==
  {"total_atoms", "molecular_volume", "center_of_mass", "homo_lumo_gap", "dipole_moment",
   "polarizability", "binding_energy", "binding_sites", "ir_frequencies", "uv_vis_absorption"}
EnergyKeys == {"total_energy", "forces_rms"}
StatementOrder ==
  <<"total_atoms", "molecular_volume", "center_of_mass", "set_calculator", "total_energy",
    "forces_rms", "homo_lumo_gap", "dipole_moment", "polarizability", "binding_energy",
    "binding_sites", "ir_frequencies", "uv_vis_absorption">>
Position(k) == CHOOSE i \in 1..Len(StatementOrder) : StatementOrder[i] = k

\* C7: calculate_properties always returns a dictionary; without a failure
\* it has no 'error' key and holds the ten estimates, plus total_energy and
\* forces_rms exactly when a calculator is available; with a failure it holds
\* 'error' and exactly the properties stored before the failing statement.
C7_PropertiesDict ==
  pc \in {"save_gjf", "save_properties", "done"} =>
    LET K == keys(properties)
        calc == fairchem_calc # "None"
    IN  /\ Len(properties) = Cardinality(K)
        /\ prop_fail = "none" =>
             /\ "error" \notin K
             /\ K = BaseKeys \cup (IF calc THEN EnergyKeys ELSE {})
        /\ prop_fail # "none" =>
             /\ "error" \in K
             /\ K \ {"error"} =
                  {k \in BaseKeys \cup EnergyKeys :
                     /\ Position(k) < Position(prop_fail)
                     /\ k \in EnergyKeys => calc}

\* The forces estimate failed after the energy was stored.
C7_Witness ==
  /\ pc = "done" /\ prop_fail = "forces_rms"
  /\ keys(properties) = {"total_atoms", "molecular_volume", "center_of_mass", "total_energy", "error"}

CouldNotParse == "ValueError: Could not parse coordinates from .gjf file"

\* C8: parse_gjf_file returns the library's result when the library read
\* succeeds and uses the manual parser only when it raises; the manual parser
\* either returns a structure of at least one atom or fails with
\* ValueError("Could not parse coordinates from .gjf file").
C8_FallbackContract ==
  pc \in {"parse_returned", "parse_raised"} =>
    /\ lib_read.ok => parsed.path = "library" /\ pc = "parse_returned" /\ heap = lib_read.atoms
    /\ ~lib_read.ok => parsed.path = "manual"
    /\ parsed.path = "manual" =>
         \/ pc = "parse_returned" /\ Len(heap) = 1 /\ Len(heap[1].symbols) >= 1
         \/ pc = "parse_raised" /\ parsed.error = CouldNotParse

\* C9: construction always yields an analyzer; if a step of setup_models
\* failed both attributes are None, otherwise both are set, so fairchem_calc
\* is None iff gemnet_model is None.
C9_ModelsBothOrNeither ==
  pc # "new" =>
    /\ pc # "raised" \/ calls # <<>>
    /\ fairchem_calc \in {"None", "OCPCalculator"}
    /\ gemnet_model \in {"None", "GemNetT"}
    /\ fairchem_calc = "None" <=> gemnet_model = "None"
    /\ setup_result # "ok" <=> fairchem_calc = "None"

\* The second model failed after the calculator had been created.
C9_Witness ==
  /\ pc = "parse_absorbent" /\ setup_result = "gemnet_failed"
  /\ fairchem_calc = "None" /\ gemnet_model = "None"

IRTable == {1700, 2900, 3000, 3200, 3400}

\* C10: the IR estimate is a strictly ascending list over the fixed table,
\* with 3200 and 3400 exactly when O and H are present, 1700 exactly when C
\* and O are, 2900 and 3000 exactly when C and H are; so it is determined by
\* the set of elements present.
C10_IRFrequencies ==
  "ir_frequencies" \in keys(properties) =>
    LET f == get(properties, "ir_frequencies")
        S == Range(heap[final_complex].symbols)
    IN  /\ \A i \in 1..(Len(f) - 1) : f[i] < f[i + 1]
        /\ Range(f) \subseteq IRTable
        /\ {3200, 3400} \subseteq Range(f) <=> {"O", "H"} \subseteq S
        /\ 3200 \in Range(f) <=> 3400 \in Range(f)
        /\ 1700 \in Range(f) <=> {"C", "O"} \subseteq S
        /\ {2900, 3000} \subseteq Range(f) <=> {"C", "H"} \subseteq S
        /\ 2900 \in Range(f) <=> 3000 \in Range(f)

\* All three pairs are present, and the table order differs from the order
\* in which the code collects the frequencies.
C10_Witness ==
  /\ "ir_frequencies" \in keys(properties)
  /\ get(properties, "ir_frequencies") = <<1700, 2900, 3000, 3200, 3400>>
  /\ Range(heap[final_complex].symbols) = {"C", "H", "O"}

\* The coordinate lines of a file, in file order.
coordinate_lines(file) == SelectSeq(file, LAMBDA l : l \in CoordLines)

\* C11: on a file made of directive lines, a title, a charge/multiplicity
\* line, N coordinate lines and trailing lines, the manual parser returns
\* exactly the N atoms of the coordinate lines, in file order; no title,
\* charge or trailing line contributes an atom.
C11_OnlyCoordinateAtoms ==
  pc \in {"parse_returned", "parse_raised"} /\ parsed.path = "manual" =>
    LET c == coordinate_lines(lines)
    IN  /\ pc = "parse_returned"
        /\ parsed.symbols = [i \in 1..Len(c) |-> c[i][1].txt]
        /\ Len(heap) = 1
        /\ heap[1].symbols = [i \in 1..Len(c) |-> c[i][1].txt]
        /\ heap[1].positions = [i \in 1..Len(c) |-> <<c[i][2].val, c[i][3].val, c[i][4].val>>]

\* C11, restricted: the same, for files whose title has fewer than four
\* tokens or no digit, and whose trailing lines have fewer than four tokens.
C11_WellFormedFiles ==
  /\ pc \in {"parse_returned", "parse_raised"} /\ parsed.path = "manual"
  /\ NumberedTitleLine \notin Range(lines) /\ ConnectivityLine \notin Range(lines)
  => C11_OnlyCoordinateAtoms

\* C12: the file save_gjf_file writes for a non-empty structure, whatever
\* the title, method and basis, is parsed by _manual_gjf_parse into a structure
\* with the same symbols in the same order, at the written six-decimal
\* positions.
C12_RoundTrip ==
  pc \in {"reparse_returned", "reparse_raised"} =>
    LET a == heap[final_complex]
    IN  /\ pc = "reparse_returned"
        /\ Len(heap) = 2
        /\ heap[2].symbols = a.symbols
        /\ heap[2].positions =
             [i \in 1..Len(a.positions) |->
                <<format_6f(a.positions[i][1]), format_6f(a.positions[i][2]),
                  format_6f(a.positions[i][3])>>]

\* C12, restricted: the round trip for titles that have fewer than four
\* tokens or do not hold both a digit and a letter.
C12_PlainTitles ==
  /\ pc \in {"reparse_returned", "reparse_raised"}
  /\ lines[5] \in {DefaultTitle, ComplexTitle, ShortNumberedTitleLine}
  => C12_RoundTrip

====
